---- MODULE Spec2Model ----
(***************************************************************************)
(* Model of the Croco Cartridge CLI protocol engine (src/src/main.c):      *)
(* execute_command and the operations built on it (list_games,             *)
(* get_device_info, upload_rom, delete_rom, download_save, upload_save).   *)
(*                                                                         *)
(* The device is the environment: every bulk transfer has a               *)
(* nondeterministic outcome (success / timeout / error) and the bytes the  *)
(* device answers are drawn from bounded sets.  Bytes are integers 0..255, *)
(* 16-bit quantities are kept modulo 2^16.  Bank and chunk sizes are       *)
(* scaled down (the code's 16384 / 8192 / 32 / 512); every relation the    *)
(* code has between them is kept.                                          *)
(***************************************************************************)
EXTENDS Integers, Sequences, FiniteSets, TLC

(***************************************************************************)
(* Program constants.                                                      *)
(***************************************************************************)
CMD_BUFFER_LEN == 65
READ_BUFFER_LEN == 128
BYTE == 256
U16 == 65536

OP_UTILIZATION == 1
OP_ROM_UPLOAD == 2
OP_ROM_CHUNK == 3
OP_ROM_INFO == 4
OP_DELETE_ROM == 5
OP_SAVE_DOWNLOAD == 6
OP_SAVE_READ_CHUNK == 7
OP_SAVE_UPLOAD == 8
OP_SAVE_WRITE_CHUNK == 9
OP_DEVICE_INFO == 254
OP_SERIAL_ID == 253

UTIL_RESPONSE_LEN == 10
UTIL_MIN_BYTES == 5
INFO_RESPONSE_LEN == 25
INFO_MIN_BYTES == 20
NAME_LEN == 17
DEVINFO_RESPONSE_LEN == 15
DEVINFO_MIN_BYTES == 11
SERIAL_RESPONSE_LEN == 10
SERIAL_MIN_BYTES == 8
DELETE_RESPONSE_LEN == 2
ADDR_LEN == 4
SPEED_SWITCH == 65535
MAX_BANKS == 888
SAVE_INFO_MIN_BYTES == 18

(***************************************************************************)
(* Bounds of the model.  CHUNK_SIZE stands for the code's 32,              *)
(* ROM_CHUNKS_PER_BANK for 512 and SRAM_CHUNKS for 8192 / 32 = 256.        *)
(***************************************************************************)
CHUNK_SIZE == 2
ROM_CHUNKS_PER_BANK == 2
SRAM_CHUNKS == 2
MaxRomBanks == 2
MaxRamBanks == 2
MaxRoms == 2
MaxSaveExtra == 1
MaxPartial == 2
RawExtra == 1

\* upload_rom: BANK_SIZE (16384 = 512 * 32 in the code)
BANK_SIZE == ROM_CHUNKS_PER_BANK * CHUNK_SIZE
\* download_save / upload_save: SRAM_BANK_SIZE (8192 in the code)
SRAM_BANK_SIZE == SRAM_CHUNKS * CHUNK_SIZE
\* download_save / upload_save: CHUNKS_PER_BANK = SRAM_BANK_SIZE / CHUNK_SIZE
SRAM_CHUNKS_PER_BANK == SRAM_BANK_SIZE \div CHUNK_SIZE
\* payload of a chunk frame / of a chunk response: 4 address bytes + data (36)
CHUNK_FRAME_LEN == ADDR_LEN + CHUNK_SIZE

(***************************************************************************)
(* Byte helpers.                                                           *)
(***************************************************************************)
Min(a, b) == IF a < b THEN a ELSE b

Max(a, b) == IF a < b THEN b ELSE a

Fill(n, v) == [i \in 1..n |-> v]

\* n bytes counting up from seed
Ramp(seed, n) == [i \in 1..n |-> (seed + i - 1) % BYTE]

Take(s, n) == SubSeq(s, 1, n)

Drop(s, n) == SubSeq(s, n + 1, Len(s))

Last(s) == s[Len(s)]

\* htons(x) followed by memcpy of the two bytes: high byte first
BE16(x) == <<(x \div BYTE) % BYTE, x % BYTE>>

\* (uint16_t)((hi << 8) | lo)
U16FromBE(hi, lo) == ((hi * BYTE) + lo) % U16

\* memcpy(dst, src, n): dst is the initialised prefix of the caller's buffer
Memcpy(dst, src, n) == Take(src, n) \o Drop(dst, n)

(***************************************************************************)
(* State.                                                                  *)
(***************************************************************************)
VARIABLES
    fn,        \* the operation main has called ("none" at the menu)
    fpc,       \* its position; "done" once it has returned, "menu" at the menu
    L,         \* its parameters and locals
    ex,        \* the activation of execute_command
    response,  \* the caller's response buffer (bytes written so far; <<>> = uninitialised)
    ret,       \* value returned by the last execute_command
    err,       \* diagnostic printed by the last execute_command
    wire,      \* bulk writes (with the frame), delays and bulk reads of the
               \* current operation, in order
    rx,        \* the last bulk read: its libusb result and the bytes transferred
    chunks_in, \* download_save: the bulk reads of its 0x07 transactions, in order
    file,      \* bytes of the destination file of download_save
    result,    \* value returned by the operation
    main       \* main: its position, the device handle and the exit code

vars == <<fn, fpc, L, ex, response, ret, err, wire, rx, chunks_in, file, result, main>>

\* main before libusb_init (CrocoDevice device = {0}).  `opened` is device.dev
\* being non-NULL, `open` the handle being open, `claimed` the interface being
\* claimed, `releases` the calls of libusb_release_interface so far.
NoDevice == [pc |-> "init", opened |-> FALSE, open |-> FALSE, claimed |-> FALSE,
             releases |-> 0, code |-> 0]

NoRx == [res |-> "none", data |-> <<>>]

\* no execute_command is active.  `saved` and `mark` are what the caller's buffer
\* held and how long wire was when execute_command was called.
IdleEx == [pc |-> "idle", command |-> 0, payload |-> <<>>, response_len |-> 0,
           saved |-> <<>>, mark |-> 0]

Init ==
    /\ fn = "none"
    /\ fpc = "menu"
    /\ L = [x |-> 0]
    /\ ex = IdleEx
    /\ response = <<>>
    /\ ret = 0
    /\ err = "none"
    /\ wire = <<>>
    /\ rx = NoRx
    /\ chunks_in = <<>>
    /\ file = <<>>
    /\ result = 0
    /\ main = NoDevice

(***************************************************************************)
(* The device: what a bulk read can transfer for a command.                *)
(***************************************************************************)
WrongEcho(command) == (command + 1) % BYTE

StatusOps == {OP_ROM_UPLOAD, OP_ROM_CHUNK, OP_DELETE_ROM, OP_SAVE_DOWNLOAD,
              OP_SAVE_UPLOAD, OP_SAVE_WRITE_CHUNK}

\* status(1), possibly absent or followed by a stray byte
StatusBodies == {<<>>, <<0>>, <<1>>, <<0, 1>>, <<1, 0>>}

\* rom_count(1) + used_banks_LE(2) + pad: 5 bytes, or one short
UtilBodies ==
    { Take(<<n, u[1], u[2], 0, 0>>, len) :
        n \in 0..MaxRoms, u \in {<<0, 2>>, <<255, 1>>},
        len \in {UTIL_MIN_BYTES - 1, UTIL_MIN_BYTES} }

\* name(17) + ram_banks(1) + mbc(1) + rom_banks_LE(2), cut to len bytes
InfoBodies ==
    { Take(e, len) :
        e \in { <<90, 69, 76, 68, 65>> \o Fill(NAME_LEN - 5, 0) \o <<1, 27, 0, 2>>,
                <<90, 69, 76, 68, 65>> \o Fill(NAME_LEN - 5, 0) \o <<0, 0, 1, 0>>,
                Ramp(65, NAME_LEN) \o <<MaxRamBanks, 255, 3, 1>> },
        len \in {NAME_LEN, NAME_LEN + 1, INFO_MIN_BYTES - 1, INFO_MIN_BYTES,
                 INFO_MIN_BYTES + 1} }

DevInfoBodies == { Ramp(1, len) : len \in {DEVINFO_MIN_BYTES - 1, DEVINFO_MIN_BYTES} }

SerialBodies == { Ramp(161, len) : len \in {SERIAL_MIN_BYTES - 1, SERIAL_MIN_BYTES} }

\* bank and chunk numbers the device may put in a chunk response
AddrVals == (0..(Max(MaxRamBanks, SRAM_CHUNKS_PER_BANK) - 1)) \cup {BYTE}

DataSeeds == {16, 32}

\* bank_BE(2) + chunk_BE(2) + data(32), or the same one byte short
ChunkBodies ==
    { BE16(a[1]) \o BE16(a[2]) \o Ramp(seed, CHUNK_SIZE) :
        a \in AddrVals \X AddrVals, seed \in DataSeeds }
    \cup { BE16(0) \o BE16(c) \o Ramp(16, CHUNK_SIZE - 1) : c \in {0, 1} }

Bodies(command) ==
    CASE command \in StatusOps -> StatusBodies
      [] command = OP_UTILIZATION -> UtilBodies
      [] command = OP_ROM_INFO -> InfoBodies
      [] command = OP_DEVICE_INFO -> DevInfoBodies
      [] command = OP_SERIAL_ID -> SerialBodies
      [] command = OP_SAVE_READ_CHUNK -> ChunkBodies
      [] OTHER -> {<<0>>, <<7, 0>>, <<7, 8, 9>>}

\* a response frame: nothing, the echo byte alone, or an echo byte (right or
\* wrong) and a body
Responses(command) ==
    {<<>>, <<command>>, <<WrongEcho(command)>>, <<WrongEcho(command), 0>>}
    \cup { <<command>> \o body : body \in Bodies(command) }

\* bytes transferred by the bulk read, by its libusb result
DeviceData(command, res) ==
    CASE res = "ok" -> Responses(command)
      [] res = "timeout" -> {r \in Responses(command) : Len(r) <= MaxPartial}
      [] OTHER -> {<<>>}

(***************************************************************************)
(* send_command / read_response / execute_command.                         *)
(***************************************************************************)
\* variant of send_command: a failed bulk write is not reported
send_commandIgnoringFailure(ok, cmd_len) == cmd_len

\* send_command: -1 when the bulk write fails, else the bytes transferred
send_command(ok, cmd_len) == IF ok THEN cmd_len ELSE -1

\* variant of read_response: a timeout reports zero bytes
read_responseTimeoutIsEmpty(res, data) ==
    IF res = "ok" THEN Len(data) ELSE IF res = "timeout" THEN 0 ELSE -1

\* read_response: a timeout is not an error, the bytes transferred are returned
read_response(res, data) == IF res /= "ok" /\ res /= "timeout" THEN -1 ELSE Len(data)

\* variant of FrameTooLarge: the limit off by one
FrameTooLargeOffByOne(cmd_len) == cmd_len > CMD_BUFFER_LEN + 1

\* line 209
FrameTooLarge(cmd_len) == cmd_len > CMD_BUFFER_LEN

\* line 231
NoResponse(bytes_read) == bytes_read < 1

\* variant of EchoMismatch: the echo byte is not looked at
EchoMismatchUnchecked(buffer, command) == FALSE

\* line 238
EchoMismatch(buffer, command) == buffer[1] /= command

\* variant of DataLen: the length is not clamped to the caller's capacity
DataLenUnclamped(bytes_read, response_len) == bytes_read - 1

\* lines 245-248
DataLen(bytes_read, response_len) == Min(bytes_read - 1, response_len)

\* variant of ExecOutcome: a read of zero bytes is an empty, successful answer
ExecOutcomeEmptyIsSuccess(bytes_read, buffer, command, response_len) ==
    IF bytes_read < 0
    THEN [ret |-> -1, err |-> "ReadFail", copy |-> <<>>]
    ELSE IF bytes_read = 0
    THEN [ret |-> 0, err |-> "none", copy |-> <<>>]
    ELSE IF EchoMismatch(buffer, command)
    THEN [ret |-> -1, err |-> "EchoMismatch", copy |-> <<>>]
    ELSE [ret |-> DataLen(bytes_read, response_len), err |-> "none",
          copy |-> Take(Drop(buffer, 1), DataLen(bytes_read, response_len))]

\* lines 227-251: what execute_command returns, prints and copies to the caller
\* once read_response has returned bytes_read with `buffer` received
ExecOutcome(bytes_read, buffer, command, response_len) ==
    IF bytes_read < 0
    THEN [ret |-> -1, err |-> "ReadFail", copy |-> <<>>]
    ELSE IF NoResponse(bytes_read)
    THEN [ret |-> -1, err |-> "NoResponse", copy |-> <<>>]
    ELSE IF EchoMismatch(buffer, command)
    THEN [ret |-> -1, err |-> "EchoMismatch", copy |-> <<>>]
    ELSE [ret |-> DataLen(bytes_read, response_len), err |-> "none",
          copy |-> Take(Drop(buffer, 1), DataLen(bytes_read, response_len))]

\* the call: the activation starts, the caller's buffer is buf
StartExec(command, payload, response_len, buf) ==
    /\ ex' = [pc |-> "begin", command |-> command, payload |-> payload,
              response_len |-> response_len, saved |-> buf, mark |-> Len(wire')]
    /\ response' = buf
    /\ ret' = 0
    /\ err' = "none"
    /\ rx' = NoRx

\* lines 206-217: the size check and the frame
ExecFrame ==
    /\ ex.pc = "begin"
    /\ IF FrameTooLarge(1 + Len(ex.payload))
       THEN /\ ex' = [ex EXCEPT !.pc = "ret"]
            /\ ret' = -1
            /\ err' = "TooLarge"
       ELSE /\ ex' = [ex EXCEPT !.pc = "send"]
            /\ UNCHANGED <<ret, err>>
    /\ UNCHANGED <<fn, fpc, L, response, wire, rx, chunks_in, file, result>>
    /\ UNCHANGED main

\* lines 219-221: the bulk write of cmd_buffer
ExecSend ==
    /\ ex.pc = "send"
    /\ \E ok \in BOOLEAN :
        LET cmd_buffer == <<ex.command>> \o ex.payload IN
        /\ wire' = Append(wire, [k |-> "tx", frame |-> cmd_buffer, ok |-> ok])
        /\ IF send_command(ok, Len(cmd_buffer)) < 0
           THEN /\ ex' = [ex EXCEPT !.pc = "ret"]
                /\ ret' = -1
                /\ err' = "SendFail"
           ELSE /\ ex' = [ex EXCEPT !.pc = "delay"]
                /\ UNCHANGED <<ret, err>>
    /\ UNCHANGED <<fn, fpc, L, response, rx, chunks_in, file, result>>
    /\ UNCHANGED main

\* line 223: usleep(5000)
ExecDelay ==
    /\ ex.pc = "delay"
    /\ ex' = [ex EXCEPT !.pc = "recv"]
    /\ wire' = Append(wire, [k |-> "delay"])
    /\ UNCHANGED <<fn, fpc, L, response, ret, err, rx, chunks_in, file, result>>
    /\ UNCHANGED main

\* lines 225-251: the bulk read, the checks and the copy to the caller
ExecRecv ==
    /\ ex.pc = "recv"
    /\ \E res \in {"ok", "timeout", "error"} :
       \E buffer \in DeviceData(ex.command, res) :
        LET out == ExecOutcome(read_response(res, buffer), buffer, ex.command,
                               ex.response_len)
        IN
        /\ wire' = Append(wire, [k |-> "rx"])
        /\ rx' = [res |-> res, data |-> buffer]
        /\ chunks_in' = IF fn = "download_save" /\ ex.command = OP_SAVE_READ_CHUNK
                        THEN Append(chunks_in, [res |-> res, data |-> buffer])
                        ELSE chunks_in
        /\ ex' = [ex EXCEPT !.pc = "ret"]
        /\ ret' = out.ret
        /\ err' = out.err
        /\ response' = Memcpy(response, out.copy, Len(out.copy))
    /\ UNCHANGED <<fn, fpc, L, file, result>>
    /\ UNCHANGED main

(***************************************************************************)
(* Calls and returns of the operations.                                    *)
(***************************************************************************)
AtMenu == main.pc = "loop" /\ fpc = "menu"

\* main's loop (lines 653-664): back to the prompt after the operation, whose
\* result main does not look at (`result` keeps it until the next call)
BackToMenu ==
    /\ main.pc = "loop"
    /\ fpc = "done"
    /\ fn' = "none"
    /\ fpc' = "menu"
    /\ L' = [x |-> 0]
    /\ ex' = IdleEx
    /\ response' = <<>>
    /\ ret' = 0
    /\ err' = "none"
    /\ wire' = <<>>
    /\ rx' = NoRx
    /\ chunks_in' = <<>>
    /\ file' = <<>>
    /\ UNCHANGED <<result, main>>

\* the operation returns v to main, its locals being l
ReturnWith(v, l) ==
    /\ fpc' = "done"
    /\ result' = v
    /\ L' = l
    /\ ex' = IdleEx
    /\ UNCHANGED <<fn, response, ret, err, wire, rx, chunks_in>>

\* the operation returns v to main
Return(v) == ReturnWith(v, L)

\* the operation goes on at pc with locals l
Goto(pc, l) ==
    /\ fpc' = pc
    /\ L' = l
    /\ ex' = IdleEx
    /\ UNCHANGED <<fn, response, ret, err, wire, rx, chunks_in, result>>

\* the operation calls execute_command and goes on at pc when it returns
Invoke(pc, l, command, payload, response_len, buf) ==
    /\ fpc' = pc
    /\ L' = l
    /\ StartExec(command, payload, response_len, buf)
    /\ UNCHANGED chunks_in

\* main calls operation f: the logs of the previous operation are dropped
Begin(f) ==
    /\ fn' = f
    /\ result' = 0
    /\ wire' = <<>>
    /\ file' = <<>>

\* main calls operation f from the menu
Enter(f) == AtMenu /\ Begin(f)

\* main calls operation f, which returns v at once
BeginReturn(f, l, v) ==
    /\ fn' = f
    /\ fpc' = "done"
    /\ L' = l
    /\ result' = v
    /\ wire' = <<>>
    /\ rx' = NoRx
    /\ chunks_in' = <<>>
    /\ file' = <<>>
    /\ ex' = IdleEx
    /\ response' = <<>>
    /\ ret' = 0
    /\ err' = "none"

\* main calls operation f from the menu, and f returns v at once
EnterReturn(f, l, v) == AtMenu /\ BeginReturn(f, l, v)

\* execute_command has returned to operation f at position pc
Returned(f, pc) == fn = f /\ fpc = pc /\ ex.pc = "ret"

\* operation f is at position pc, outside execute_command
At(f, pc) == fn = f /\ fpc = pc /\ ex.pc = "idle"

(***************************************************************************)
(* execute_command called on its own, with any opcode, payload length and  *)
(* capacity.                                                               *)
(***************************************************************************)
RawOpcodes == {OP_DELETE_ROM, 170, 255}

RawPayloadLens == {0, 1, CMD_BUFFER_LEN - 2, CMD_BUFFER_LEN - 1, CMD_BUFFER_LEN,
                   CMD_BUFFER_LEN + RawExtra}

RawCapacities == {0, 1, 2}

CallExecute ==
    /\ Enter("execute_command")
    /\ \E command \in RawOpcodes, n \in RawPayloadLens, cap \in RawCapacities,
          buf \in {<<>>, <<9, 9>>} :
        Invoke("after_cmd", [x |-> 0], command, Ramp(1, n), cap, buf)
    /\ UNCHANGED main

ExecuteReturned ==
    /\ Returned("execute_command", "after_cmd")
    /\ Return(ret)
    /\ UNCHANGED file
    /\ UNCHANGED main

(***************************************************************************)
(* list_games (lines 254-321).                                             *)
(***************************************************************************)
\* line 260
UtilizationFailed(bytes) == bytes < UTIL_MIN_BYTES

\* variant of UsedBanks: the raw counter is reported unscaled
UsedBanksRaw(resp) == ((resp[3] * BYTE) + resp[2]) % U16

\* line 266: ((response[2] << 8) | response[1]) / 256 as uint16_t
UsedBanks(resp) == (((resp[3] * BYTE) + resp[2]) \div 256) % U16

\* line 291
InfoFailed(info_bytes) == info_bytes < INFO_MIN_BYTES

\* the C string in name[18]: the bytes before the first NUL
CString(bytes) ==
    LET nul == {i \in 1..Len(bytes) : bytes[i] = 0} IN
    IF nul = {} THEN bytes
    ELSE Take(bytes, (CHOOSE i \in nul : \A j \in nul : i <= j) - 1)

\* variant of DecodeEntry: the MBC byte is taken only from a response longer
\* than 20 bytes
DecodeEntryMbcGatedLate(i, info_response, info_bytes) ==
    [id |-> i,
     name |-> CString(Take(info_response, NAME_LEN)),
     num_ram_banks |-> info_response[NAME_LEN + 1],
     mbc |-> IF info_bytes > INFO_MIN_BYTES THEN info_response[NAME_LEN + 2] ELSE 255,
     num_rom_banks |-> IF info_bytes > INFO_MIN_BYTES
                       THEN ((info_response[NAME_LEN + 4] * BYTE)
                             + info_response[NAME_LEN + 3]) % U16
                       ELSE 0]

\* variant of DecodeEntry: the ROM bank count is read big-endian
DecodeEntryBigEndian(i, info_response, info_bytes) ==
    [id |-> i,
     name |-> CString(Take(info_response, NAME_LEN)),
     num_ram_banks |-> info_response[NAME_LEN + 1],
     mbc |-> IF info_bytes > NAME_LEN + 1 THEN info_response[NAME_LEN + 2] ELSE 255,
     num_rom_banks |-> IF info_bytes > INFO_MIN_BYTES
                       THEN ((info_response[NAME_LEN + 3] * BYTE)
                             + info_response[NAME_LEN + 4]) % U16
                       ELSE 0]

\* lines 296-305: the catalog entry printed for slot i
DecodeEntry(i, info_response, info_bytes) ==
    [id |-> i,
     name |-> CString(Take(info_response, NAME_LEN)),
     num_ram_banks |-> info_response[NAME_LEN + 1],
     mbc |-> IF info_bytes > NAME_LEN + 1 THEN info_response[NAME_LEN + 2] ELSE 255,
     num_rom_banks |-> IF info_bytes > INFO_MIN_BYTES
                       THEN ((info_response[NAME_LEN + 4] * BYTE)
                             + info_response[NAME_LEN + 3]) % U16
                       ELSE 0]

\* line 285: i++
NextSlot(i) == i + 1

CallListGames ==
    /\ Enter("list_games")
    /\ \E mode \in {0, 1} :
        Invoke("after_util",
               [mode |-> mode, num_roms |-> 0, used_banks |-> 0, max_banks |-> 0, i |-> 0,
                entries |-> <<>>],
               OP_UTILIZATION, <<>>, UTIL_RESPONSE_LEN, <<>>)
    /\ UNCHANGED main

\* lines 260-283
ListGamesUtilReturned ==
    /\ Returned("list_games", "after_util")
    /\ IF UtilizationFailed(ret)
       THEN Return(-1)
       ELSE LET num_roms == response[1] IN
            IF L.mode /= 1 /\ num_roms = 0
            THEN ReturnWith(0, [L EXCEPT !.used_banks = UsedBanks(response),
                                         !.max_banks = MAX_BANKS])
            ELSE Goto("loop", [L EXCEPT !.num_roms = num_roms,
                                        !.used_banks = UsedBanks(response),
                                        !.max_banks = MAX_BANKS])
    /\ UNCHANGED file
    /\ UNCHANGED main

\* lines 285-289: the loop test and the rom-info request
ListGamesLoop ==
    /\ At("list_games", "loop")
    /\ IF L.i < L.num_roms
       THEN /\ UNCHANGED <<fn, wire, result>>
            /\ Invoke("after_info", L, OP_ROM_INFO, <<L.i % BYTE>>, INFO_RESPONSE_LEN, <<>>)
       ELSE Return(0)
    /\ UNCHANGED file
    /\ UNCHANGED main

\* variant of ListGamesInfoReturned: a slot that cannot be read ends the listing
ListGamesInfoReturnedAborts ==
    /\ Returned("list_games", "after_info")
    /\ IF InfoFailed(ret)
       THEN Return(-1)
       ELSE /\ fpc' = "loop"
            /\ L' = [L EXCEPT !.i = NextSlot(L.i),
                              !.entries = Append(@, DecodeEntry(L.i, response, ret))]
            /\ wire' = Append(wire, [k |-> "delay"])
            /\ ex' = IdleEx
            /\ UNCHANGED <<fn, response, ret, err, rx, chunks_in, result>>
    /\ UNCHANGED file
    /\ UNCHANGED main

\* variant of ListGamesInfoReturned: the sleep also follows a skipped slot
ListGamesInfoReturnedSleepsOnSkip ==
    /\ Returned("list_games", "after_info")
    /\ fpc' = "loop"
    /\ L' = IF InfoFailed(ret)
            THEN [L EXCEPT !.i = NextSlot(L.i)]
            ELSE [L EXCEPT !.i = NextSlot(L.i),
                           !.entries = Append(@, DecodeEntry(L.i, response, ret))]
    /\ wire' = Append(wire, [k |-> "delay"])
    /\ ex' = IdleEx
    /\ UNCHANGED <<fn, response, ret, err, rx, chunks_in, result>>
    /\ UNCHANGED file
    /\ UNCHANGED main

\* lines 291-317: skip the slot, or decode it, print it and sleep
ListGamesInfoReturned ==
    /\ Returned("list_games", "after_info")
    /\ IF InfoFailed(ret)
       THEN Goto("loop", [L EXCEPT !.i = NextSlot(L.i)])
       ELSE /\ fpc' = "loop"
            /\ L' = [L EXCEPT !.i = NextSlot(L.i),
                              !.entries = Append(@, DecodeEntry(L.i, response, ret))]
            /\ wire' = Append(wire, [k |-> "delay"])
            /\ ex' = IdleEx
            /\ UNCHANGED <<fn, response, ret, err, rx, chunks_in, result>>
    /\ UNCHANGED file
    /\ UNCHANGED main

(***************************************************************************)
(* get_device_info (lines 323-370).                                        *)
(***************************************************************************)
CallGetDeviceInfo ==
    /\ Enter("get_device_info")
    /\ Invoke("after_info", [info |-> <<>>, serial |-> <<>>, info_rx |-> NoRx],
              OP_DEVICE_INFO, <<>>, DEVINFO_RESPONSE_LEN, <<>>)
    /\ UNCHANGED main

\* lines 329-357
DeviceInfoReturned ==
    /\ Returned("get_device_info", "after_info")
    /\ IF ret < DEVINFO_MIN_BYTES
       THEN ReturnWith(-1, [L EXCEPT !.info_rx = rx])
       ELSE /\ wire' = Append(wire, [k |-> "delay"])
            /\ Invoke("after_serial",
                      [L EXCEPT !.info = Take(response, DEVINFO_MIN_BYTES), !.info_rx = rx],
                      OP_SERIAL_ID, <<>>, SERIAL_RESPONSE_LEN, <<>>)
            /\ UNCHANGED <<fn, result>>
    /\ UNCHANGED file
    /\ UNCHANGED main

\* variant of SerialReturned: a serial id that cannot be read fails the query
SerialReturnedStrict ==
    /\ Returned("get_device_info", "after_serial")
    /\ IF ret >= SERIAL_MIN_BYTES
       THEN ReturnWith(0, [L EXCEPT !.serial = Take(response, SERIAL_MIN_BYTES)])
       ELSE Return(-1)
    /\ UNCHANGED file
    /\ UNCHANGED main

\* lines 359-369
SerialReturned ==
    /\ Returned("get_device_info", "after_serial")
    /\ ReturnWith(0, IF ret >= SERIAL_MIN_BYTES
                      THEN [L EXCEPT !.serial = Take(response, SERIAL_MIN_BYTES)]
                      ELSE L)
    /\ UNCHANGED file
    /\ UNCHANGED main

(***************************************************************************)
(* delete_rom (lines 459-480).                                             *)
(***************************************************************************)
RomIds == {0, 2}

CallDeleteRom ==
    /\ Enter("delete_rom")
    /\ \E rom_id \in RomIds :
        Invoke("after_cmd", [rom_id |-> rom_id],
               OP_DELETE_ROM, <<rom_id>>, DELETE_RESPONSE_LEN, <<>>)
    /\ UNCHANGED main

DeleteRomReturned ==
    /\ Returned("delete_rom", "after_cmd")
    /\ IF ret < 1 THEN Return(-1)
       ELSE IF response[1] /= 0 THEN Return(-1)
       ELSE Return(0)
    /\ UNCHANGED file
    /\ UNCHANGED main

(***************************************************************************)
(* Files on the host: a size and its bytes, byte o being seed + o mod 256. *)
(***************************************************************************)
FileSeeds == {1, 200}

FileByte(f, o) == (f.seed + o) % BYTE

\* n bytes of f from offset o (all of them inside the file)
FileBytes(f, o, n) == [i \in 1..n |-> FileByte(f, o + i - 1)]

\* the status byte `resp` tested by `resp != 0`: never written, it holds any value
RespNonZero(resp) == IF resp = <<>> THEN BOOLEAN ELSE {resp[1] /= 0}

\* variant of Rejected: the status byte is not looked at
RejectedIgnoringStatus(r, nonzero) == r < 0

\* lines 409, 443, 500, 576, 599: execute_command(...) < 0 || resp != 0
Rejected(r, nonzero) == r < 0 \/ nonzero

\* variant of NextAddr: the chunk counter is not reset at the end of a bank
NextAddrNoReset(b, c, chunks_per_bank) ==
    IF c + 1 < chunks_per_bank THEN <<b, (c + 1) % U16>> ELSE <<(b + 1) % U16, c>>

\* the nested for loops over banks and chunks (lines 425/429, 508/512, 584/588):
\* the (b, c) of the next iteration
NextAddr(b, c, chunks_per_bank) ==
    IF c + 1 < chunks_per_bank THEN <<b, (c + 1) % U16>> ELSE <<(b + 1) % U16, 0>>

(***************************************************************************)
(* upload_rom (lines 379-457).                                             *)
(***************************************************************************)
RomSizes ==
    {0, 1, CHUNK_SIZE + 1, BANK_SIZE - 1, BANK_SIZE, BANK_SIZE + 1,
     BANK_SIZE + CHUNK_SIZE + 1, MaxRomBanks * BANK_SIZE}
    \cup {U16 * BANK_SIZE, U16 * BANK_SIZE + 1}

RomFiles == [size : RomSizes, seed : FileSeeds]

\* what scanf("%s", name) can leave in name
RomNames == {<<90>>, Ramp(65, NAME_LEN + 1)}

\* line 394: (uint16_t)((file_size + BANK_SIZE - 1) / BANK_SIZE)
TotalBanks(file_size) == ((file_size + BANK_SIZE - 1) \div BANK_SIZE) % U16

\* strncpy(dst, name, 17) into the zeroed field
Strncpy(name, n) == Take(name, Min(Len(name), n)) \o Fill(n - Min(Len(name), n), 0)

\* lines 401-406: total_banks_BE(2) + name(17) + speed switch 0xFFFF
UploadRequest(total_banks, rom_name) ==
    BE16(total_banks) \o Strncpy(rom_name, NAME_LEN) \o BE16(SPEED_SWITCH)

\* lines 430-441: bank_BE(2) + chunk_BE(2) + up to CHUNK_SIZE bytes of the file
\* from offset b * BANK_SIZE + c * CHUNK_SIZE, zero-padded
RomChunkPayload(f, b, c) ==
    LET offset == (b * BANK_SIZE) + (c * CHUNK_SIZE)
        to_copy == IF offset < f.size THEN Min(f.size - offset, CHUNK_SIZE) ELSE 0
    IN BE16(b) \o BE16(c) \o FileBytes(f, offset, to_copy) \o Fill(CHUNK_SIZE - to_copy, 0)

CallUploadRom ==
    /\ UNCHANGED main
    /\ \E f \in RomFiles, rom_name \in RomNames, opened \in BOOLEAN :
        LET l == [f |-> f, rom_name |-> rom_name, file_size |-> f.size,
                  total_banks |-> TotalBanks(f.size), b |-> 0, c |-> 0]
        IN IF ~opened
           THEN EnterReturn("upload_rom", l, -1)
           ELSE /\ Enter("upload_rom")
                /\ Invoke("after_handshake", l, OP_ROM_UPLOAD,
                          UploadRequest(l.total_banks, rom_name), 1, <<>>)

\* lines 409-423: the handshake's answer, then malloc and fread of the file
UploadRomHandshakeReturned ==
    /\ Returned("upload_rom", "after_handshake")
    /\ \E nonzero \in RespNonZero(response), allocated \in BOOLEAN :
        IF Rejected(ret, nonzero) THEN Return(-1)
        ELSE IF ~allocated THEN Return(-1)
        ELSE Goto("loop", L)
    /\ UNCHANGED file
    /\ UNCHANGED main

\* variant of UploadRomLoop: the chunk loop is left after the first chunk of a
\* bank
UploadRomLoopOneChunkPerBank ==
    /\ At("upload_rom", "loop")
    /\ IF L.b < L.total_banks /\ L.c = 0
       THEN /\ UNCHANGED <<fn, wire, result>>
            /\ Invoke("after_chunk", L, OP_ROM_CHUNK, RomChunkPayload(L.f, L.b, L.c),
                      1, response)
       ELSE Return(0)
    /\ UNCHANGED file
    /\ UNCHANGED main

\* lines 425-443: the loop tests and the next chunk
UploadRomLoop ==
    /\ At("upload_rom", "loop")
    /\ IF L.b < L.total_banks
       THEN /\ UNCHANGED <<fn, wire, result>>
            /\ Invoke("after_chunk", L, OP_ROM_CHUNK, RomChunkPayload(L.f, L.b, L.c),
                      1, response)
       ELSE Return(0)
    /\ UNCHANGED file
    /\ UNCHANGED main

\* lines 443-448
UploadRomChunkReturned ==
    /\ Returned("upload_rom", "after_chunk")
    /\ \E nonzero \in RespNonZero(response) :
        IF Rejected(ret, nonzero) THEN Return(-1)
        ELSE LET n == NextAddr(L.b, L.c, ROM_CHUNKS_PER_BANK) IN
             Goto("loop", [L EXCEPT !.b = n[1], !.c = n[2]])
    /\ UNCHANGED file
    /\ UNCHANGED main

(***************************************************************************)
(* download_save (lines 482-547).                                          *)
(***************************************************************************)
\* lines 713, 747: info_bytes < 18
SaveInfoFailed(info_bytes) == info_bytes < SAVE_INFO_MIN_BYTES

\* lines 718, 752: ram_banks = info_resp[17]
RamBanks(info_resp) == info_resp[NAME_LEN + 1]

\* variant of NoRam: a game without RAM is not refused
NoRamUnchecked(ram_banks) == FALSE

\* lines 719, 753
NoRam(ram_banks) == ram_banks = 0

\* line 515
ChunkReadFailed(bytes) == bytes < CHUNK_FRAME_LEN

\* lines 521-522
ReceivedBank(chunk_resp) == U16FromBE(chunk_resp[1], chunk_resp[2])

ReceivedChunk(chunk_resp) == U16FromBE(chunk_resp[3], chunk_resp[4])

\* variant of OutOfSync: only the bank is compared
OutOfSyncBankOnly(chunk_resp, b, c) == ReceivedBank(chunk_resp) /= b

\* line 524
OutOfSync(chunk_resp, b, c) == ReceivedBank(chunk_resp) /= b \/ ReceivedChunk(chunk_resp) /= c

\* variant of ChunkData: the data is taken one byte early
ChunkDataOffByOne(chunk_resp) == SubSeq(chunk_resp, ADDR_LEN, ADDR_LEN + CHUNK_SIZE - 1)

\* line 533: chunk_resp + 4, 32 bytes
ChunkData(chunk_resp) == SubSeq(chunk_resp, ADDR_LEN + 1, ADDR_LEN + CHUNK_SIZE)

\* lines 713-729 in case 's' of main (the rom-info answer is long enough, the
\* game has RAM and the path is read), then lines 483-500
CallDownloadSave ==
    /\ UNCHANGED main
    /\ Returned("main", "after_info")
    /\ L.choice = "s"
    /\ ~SaveInfoFailed(ret)
    /\ ~NoRam(RamBanks(response))
    /\ \E opened \in BOOLEAN :
        LET rom_id == L.target_id
            num_ram_banks == RamBanks(response)
            l == [rom_id |-> rom_id, num_ram_banks |-> num_ram_banks, created |-> opened,
                  b |-> 0, c |-> 0, asked |-> <<>>, diag |-> "none"]
        IN IF ~opened
           THEN BeginReturn("download_save", l, -1)
           ELSE /\ Begin("download_save")
                /\ Invoke("after_handshake", l, OP_SAVE_DOWNLOAD, <<rom_id>>, 1, <<>>)

\* lines 500-505
DownloadHandshakeReturned ==
    /\ Returned("download_save", "after_handshake")
    /\ \E nonzero \in RespNonZero(response) :
        IF Rejected(ret, nonzero)
        THEN ReturnWith(-1, [L EXCEPT !.diag = "rejected"])
        ELSE Goto("loop", L)
    /\ UNCHANGED file
    /\ UNCHANGED main

\* lines 508-515: the loop tests and the next chunk request
DownloadLoop ==
    /\ At("download_save", "loop")
    /\ IF L.b < L.num_ram_banks
       THEN /\ UNCHANGED <<fn, wire, result>>
            /\ Invoke("after_chunk", [L EXCEPT !.asked = Append(@, <<L.b, L.c>>)],
                      OP_SAVE_READ_CHUNK, <<>>, CHUNK_FRAME_LEN, <<>>)
       ELSE Return(0)
    /\ UNCHANGED file
    /\ UNCHANGED main

\* lines 515-537: the length check, the synchronisation check and the fwrite,
\* which writes `written` of the 32 bytes; diag is the error printed
DownloadChunkReturned ==
    /\ Returned("download_save", "after_chunk")
    /\ IF ChunkReadFailed(ret)
       THEN ReturnWith(-1, [L EXCEPT !.diag = "read"]) /\ UNCHANGED file
       ELSE IF OutOfSync(response, L.b, L.c)
       THEN ReturnWith(-1, [L EXCEPT !.diag = "sync"]) /\ UNCHANGED file
       ELSE \E written \in 0..CHUNK_SIZE :
            /\ file' = file \o Take(ChunkData(response), written)
            /\ IF written /= CHUNK_SIZE
               THEN ReturnWith(-1, [L EXCEPT !.diag = "disk"])
               ELSE LET n == NextAddr(L.b, L.c, SRAM_CHUNKS_PER_BANK) IN
                    Goto("loop", [L EXCEPT !.b = n[1], !.c = n[2]])
    /\ UNCHANGED main

(***************************************************************************)
(* upload_save (lines 549-613).                                            *)
(***************************************************************************)
SaveSizes ==
    {0, 1, CHUNK_SIZE, CHUNK_SIZE + 1, SRAM_BANK_SIZE - 1, SRAM_BANK_SIZE,
     SRAM_BANK_SIZE + 1, MaxRamBanks * SRAM_BANK_SIZE,
     MaxRamBanks * SRAM_BANK_SIZE + MaxSaveExtra}

SaveFiles == [size : SaveSizes, seed : FileSeeds]

\* line 597: fread of up to CHUNK_SIZE bytes at the file position
FreadCount(f, pos) == IF pos < f.size THEN Min(f.size - pos, CHUNK_SIZE) ELSE 0

\* variant of SaveChunkPayload: the buffer is not cleared, the bytes after
\* the ones read are 0xFF
SaveChunkPayloadUncleared(f, pos, b, c) ==
    LET read_bytes == FreadCount(f, pos) IN
    BE16(b) \o BE16(c) \o FileBytes(f, pos, read_bytes) \o Fill(CHUNK_SIZE - read_bytes, 255)

\* lines 589-597: bank_BE(2) + chunk_BE(2) + the bytes read, zero-padded
SaveChunkPayload(f, pos, b, c) ==
    LET read_bytes == FreadCount(f, pos) IN
    BE16(b) \o BE16(c) \o FileBytes(f, pos, read_bytes) \o Fill(CHUNK_SIZE - read_bytes, 0)

\* lines 747-763 in case 'u' of main (the rom-info answer is long enough, the
\* game has RAM and the path is read), then lines 550-576
CallUploadSave ==
    /\ UNCHANGED main
    /\ Returned("main", "after_info")
    /\ L.choice = "u"
    /\ ~SaveInfoFailed(ret)
    /\ ~NoRam(RamBanks(response))
    /\ \E f \in SaveFiles, opened \in BOOLEAN :
        LET rom_id == L.target_id
            num_ram_banks == RamBanks(response)
            l == [rom_id |-> rom_id, num_ram_banks |-> num_ram_banks, f |-> f,
                  pos |-> 0, b |-> 0, c |-> 0]
        IN IF ~opened
           THEN BeginReturn("upload_save", l, -1)
           ELSE /\ Begin("upload_save")
                /\ Invoke("after_handshake", l, OP_SAVE_UPLOAD, <<rom_id>>, 1, <<>>)

\* lines 576-581
UploadSaveHandshakeReturned ==
    /\ Returned("upload_save", "after_handshake")
    /\ \E nonzero \in RespNonZero(response) :
        IF Rejected(ret, nonzero) THEN Return(-1) ELSE Goto("loop", L)
    /\ UNCHANGED file
    /\ UNCHANGED main

\* lines 584-599: the loop tests, the fread and the next chunk
UploadSaveLoop ==
    /\ At("upload_save", "loop")
    /\ IF L.b < L.num_ram_banks
       THEN /\ UNCHANGED <<fn, wire, result>>
            /\ Invoke("after_chunk",
                      [L EXCEPT !.pos = @ + FreadCount(L.f, L.pos)],
                      OP_SAVE_WRITE_CHUNK, SaveChunkPayload(L.f, L.pos, L.b, L.c),
                      1, response)
       ELSE Return(0)
    /\ UNCHANGED file
    /\ UNCHANGED main

\* variant of UploadSaveChunkReturned: a rejected chunk is sent again
UploadSaveChunkReturnedRetries ==
    /\ Returned("upload_save", "after_chunk")
    /\ \E nonzero \in RespNonZero(response) :
        IF Rejected(ret, nonzero) THEN Goto("loop", L)
        ELSE LET n == NextAddr(L.b, L.c, SRAM_CHUNKS_PER_BANK) IN
             Goto("loop", [L EXCEPT !.b = n[1], !.c = n[2]])
    /\ UNCHANGED file
    /\ UNCHANGED main

\* lines 599-604
UploadSaveChunkReturned ==
    /\ Returned("upload_save", "after_chunk")
    /\ \E nonzero \in RespNonZero(response) :
        IF Rejected(ret, nonzero) THEN Return(-1)
        ELSE LET n == NextAddr(L.b, L.c, SRAM_CHUNKS_PER_BANK) IN
             Goto("loop", [L EXCEPT !.b = n[1], !.c = n[2]])
    /\ UNCHANGED file
    /\ UNCHANGED main

(***************************************************************************)
(* main (lines 615-805): start-up, the end of the menu loop and cleanup.    *)
(***************************************************************************)
\* variant of cleanup: the interface is released but the handle is not closed
cleanupWithoutClose(m) ==
    IF m.opened THEN [m EXCEPT !.claimed = FALSE, !.releases = @ + 1] ELSE m

\* lines 372-377
cleanup(m) ==
    IF m.opened
    THEN [m EXCEPT !.claimed = FALSE, !.releases = @ + 1, !.open = FALSE]
    ELSE m

\* the operations and execute_command leave main as it is
OperationVars == <<fn, fpc, L, ex, response, ret, err, wire, rx, chunks_in, file, result>>

\* lines 619-622: libusb_init
MainInit ==
    /\ main.pc = "init"
    /\ \E ok \in BOOLEAN :
        main' = IF ok THEN [main EXCEPT !.pc = "find"]
                ELSE [main EXCEPT !.pc = "exited", !.code = 1]
    /\ UNCHANGED OperationVars

\* lines 624-627 and find_croco_device (lines 28-69): no device, libusb_open
\* failing, or the device opened
MainFind ==
    /\ main.pc = "find"
    /\ \E outcome \in {"notfound", "openfail", "ok"} :
        main' = IF outcome = "ok"
                THEN [main EXCEPT !.pc = "setup", !.opened = TRUE, !.open = TRUE]
                ELSE [main EXCEPT !.pc = "exited", !.code = 1]
    /\ UNCHANGED OperationVars

\* lines 642-646 with get_endpoints (lines 71-115) and configure_device
\* (lines 117-163): the step that fails, if any.  configure_device releases
\* the interface itself when it fails after the claim.
MainSetup ==
    /\ main.pc = "setup"
    /\ \E failing \in {"endpoints", "detach", "claim", "alt", "control", "none"} :
        main' = CASE failing = "none" ->
                       [main EXCEPT !.pc = "loop", !.claimed = TRUE]
                  [] failing \in {"alt", "control"} ->
                       [cleanup([main EXCEPT !.releases = @ + 1])
                            EXCEPT !.pc = "exited", !.code = 1]
                  [] OTHER ->
                       [cleanup(main) EXCEPT !.pc = "exited", !.code = 1]
    /\ UNCHANGED OperationVars

\* lines 664-669 and 802-804: 'q' or the end of the input at the menu prompt,
\* then cleanup and return 0
MainQuit ==
    /\ AtMenu
    /\ \E why \in {"q", "eof"} :
        main' = [cleanup(main) EXCEPT !.pc = "exited", !.code = 0]
    /\ UNCHANGED OperationVars

\* lines 700-711 and 734-745: in 's' or 'u', after list_games(1), whose result
\* main does not look at, a ROM id is read at the prompt ((uint8_t)atoi) and
\* its rom-info is requested; the choice typed at the menu is drawn here,
\* where the cases that call list_games(1) first differ
MainSaveSelect ==
    /\ main.pc = "loop"
    /\ At("list_games", "done")
    /\ L.mode = 1
    /\ \E choice \in {"s", "u"}, target_id \in RomIds :
        /\ fn' = "main"
        /\ wire' = <<>>
        /\ Invoke("after_info", [choice |-> choice, target_id |-> target_id],
                  OP_ROM_INFO, <<target_id>>, INFO_RESPONSE_LEN, <<>>)
    /\ UNCHANGED <<result, file, main>>

\* lines 713-728 and 747-762: `break` because the rom-info answer is too short,
\* the game has no RAM, or the path cannot be read
MainSaveInfoReturned ==
    /\ Returned("main", "after_info")
    /\ \E path_read \in BOOLEAN :
        IF SaveInfoFailed(ret) THEN TRUE
        ELSE IF NoRam(RamBanks(response)) THEN TRUE
        ELSE ~path_read
    /\ Goto("done", L)
    /\ UNCHANGED file
    /\ UNCHANGED main

\* line 790: in 'd', after list_games(1), the input ends at the ROM id
\* prompt and getchar() != '\n' holds for ever
MainDrainInput ==
    /\ \/ main.pc = "loop" /\ fn = "list_games" /\ fpc = "done" /\ L.mode = 1
       \/ main.pc = "drain"
    /\ main' = [main EXCEPT !.pc = "drain"]
    /\ UNCHANGED OperationVars

Next ==
    \/ MainInit
    \/ MainFind
    \/ MainSetup
    \/ MainQuit
    \/ MainDrainInput
    \/ MainSaveSelect
    \/ MainSaveInfoReturned
    \/ BackToMenu
    \/ ExecFrame
    \/ ExecSend
    \/ ExecDelay
    \/ ExecRecv
    \/ CallExecute
    \/ ExecuteReturned
    \/ CallListGames
    \/ ListGamesUtilReturned
    \/ ListGamesLoop
    \/ ListGamesInfoReturned
    \/ CallGetDeviceInfo
    \/ DeviceInfoReturned
    \/ SerialReturned
    \/ CallUploadRom
    \/ UploadRomHandshakeReturned
    \/ UploadRomLoop
    \/ UploadRomChunkReturned
    \/ CallDeleteRom
    \/ DeleteRomReturned
    \/ CallDownloadSave
    \/ DownloadHandshakeReturned
    \/ DownloadLoop
    \/ DownloadChunkReturned
    \/ CallUploadSave
    \/ UploadSaveHandshakeReturned
    \/ UploadSaveLoop
    \/ UploadSaveChunkReturned

Spec == Init /\ [][Next]_vars

\* a step of execute_command or of a chunked flow that has been called: the
\* program is sequential and every libusb call returns (TIMEOUT_MS), so an
\* operation that has started keeps running
FlowStep ==
    \/ ExecFrame
    \/ ExecSend
    \/ ExecDelay
    \/ ExecRecv
    \/ UploadRomHandshakeReturned
    \/ UploadRomLoop
    \/ UploadRomChunkReturned
    \/ DownloadHandshakeReturned
    \/ DownloadLoop
    \/ DownloadChunkReturned
    \/ UploadSaveHandshakeReturned
    \/ UploadSaveLoop
    \/ UploadSaveChunkReturned

FairSpec == Spec /\ WF_vars(FlowStep)

(***************************************************************************)
(* Properties.                                                             *)
(***************************************************************************)
\* the bulk read of the current execute_command call transferred data
\* (libusb success or timeout)
Received == rx.res \in {"ok", "timeout"}

\* the bulk writes logged in w, in order
TxEvents(w) == SelectSeq(w, LAMBDA e : e.k = "tx")

\* the attempted transactions with opcode op, in order
TxOf(w, op) == SelectSeq(w, LAMBDA e : e.k = "tx" /\ e.frame[1] = op)

\* C1: for every opcode and every response of at least one byte,
\* execute_command fails with the echo-mismatch error exactly when the first
\* response byte differs from the opcode sent, and then it returns -1 and
\* leaves the caller's buffer as it was (no payload byte is delivered).
C1_EchoMismatchIffFirstByteDiffers ==
    (ex.pc = "ret" /\ Received /\ Len(rx.data) >= 1) =>
        /\ (err = "EchoMismatch") <=> (rx.data[1] /= ex.command)
        /\ (rx.data[1] /= ex.command) => (ret = -1 /\ response = ex.saved)

\* C1 witness: a two-byte response with a wrong echo was refused while the
\* caller's buffer held data
C1_Witness ==
    /\ ex.pc = "ret"
    /\ Received
    /\ Len(rx.data) >= 2
    /\ rx.data[1] /= ex.command
    /\ err = "EchoMismatch"
    /\ ex.saved /= <<>>
    /\ response = ex.saved

\* C8: a payload longer than 64 bytes makes execute_command fail with the
\* frame-too-large error without any bulk write or bulk read; every frame
\* written is at most 65 bytes long and is the opcode followed by the payload.
C8_OversizedPayloadRejectedBeforeIO ==
    /\ (ex.pc \notin {"idle", "begin"} /\ Len(ex.payload) > CMD_BUFFER_LEN - 1) =>
            /\ ex.pc = "ret"
            /\ ret = -1
            /\ err = "TooLarge"
            /\ Len(wire) = ex.mark
            /\ rx = NoRx
    /\ \A i \in 1..Len(wire) :
            wire[i].k = "tx" => /\ Len(wire[i].frame) <= CMD_BUFFER_LEN
                                /\ Len(wire[i].frame) >= 1
    /\ (ex.pc \in {"delay", "recv", "ret"} /\ Len(wire) > ex.mark) =>
            /\ wire[ex.mark + 1].k = "tx"
            /\ wire[ex.mark + 1].frame = <<ex.command>> \o ex.payload

\* C8 witness: a 65-byte payload was refused
C8_Witness ==
    /\ ex.pc = "ret"
    /\ Len(ex.payload) = CMD_BUFFER_LEN
    /\ err = "TooLarge"
    /\ ret = -1

\* C9: when the bulk read yields zero bytes, timed out or not, execute_command
\* returns -1 and leaves the caller's buffer as it was.
C9_ZeroBytesIsFailure ==
    (ex.pc = "ret" /\ Received /\ rx.data = <<>>) =>
        (ret = -1 /\ err = "NoResponse" /\ response = ex.saved)

\* C9 witness: a bulk read that timed out with nothing transferred
C9_Witness ==
    /\ ex.pc = "ret"
    /\ rx.res = "timeout"
    /\ rx.data = <<>>
    /\ ret = -1

ChunkFlows == {"upload_rom", "download_save", "upload_save"}

ChunkOps == {OP_ROM_CHUNK, OP_SAVE_READ_CHUNK, OP_SAVE_WRITE_CHUNK}

\* the chunk transactions attempted so far, in order
ChunkTx(w) == SelectSeq(w, LAMBDA e : e.k = "tx" /\ e.frame[1] \in ChunkOps)

\* the number of bulk reads logged in w
NumRx(w) == Len(SelectSeq(w, LAMBDA e : e.k = "rx"))

\* the address of the k-th chunk (k from 0) in iteration order
SeqAddr(k, chunks_per_bank) == <<k \div chunks_per_bank, k % chunks_per_bank>>

\* the (bank, chunk) written big-endian after the opcode of a frame or response
WireAddr(bytes) == <<(bytes[2] * BYTE) + bytes[3], (bytes[4] * BYTE) + bytes[5]>>

\* C2: in every chunked flow, when the answer to the handshake carries a
\* non-zero status byte, no chunk transaction has been or is issued: the
\* operation goes from the handshake straight to returning -1.
C2_HandshakeRejectionAborts ==
    (fn \in ChunkFlows /\ NumRx(wire) = 1 /\ Received /\ Len(rx.data) >= 2
     /\ rx.data[2] /= 0) =>
        /\ ChunkTx(wire) = <<>>
        /\ fpc \in {"after_handshake", "done"}
        /\ fpc = "done" => result = -1

\* C2 witness: opcode 0x02 answered with status 1 for a file of at least one
\* bank; upload_rom has returned -1
C2_Witness ==
    /\ fn = "upload_rom"
    /\ fpc = "done"
    /\ result = -1
    /\ L.total_banks >= 1
    /\ rx = [res |-> "ok", data |-> <<OP_ROM_UPLOAD, 1>>]
    /\ Len(TxEvents(wire)) = 1

\* C3: in upload_rom and upload_save the transfer goes on after a chunk
\* transaction only if that chunk's response carried, after the echo byte, a
\* status byte equal to zero; any other answer ends the transfer.
C3_ChunkAckRequired ==
    (fn \in {"upload_rom", "upload_save"} /\ fpc = "loop" /\ ChunkTx(wire) /= <<>>) =>
        /\ Received
        /\ Len(rx.data) >= 2
        /\ rx.data[1] \in ChunkOps
        /\ rx.data[2] = 0

\* a chunk response that passes the length check and the synchronisation check
\* as the k-th chunk (k from 0): the echo, at least 36 payload bytes, and the
\* big-endian address of the k-th chunk in iteration order
GoodChunk(r, k) ==
    /\ r.res \in {"ok", "timeout"}
    /\ Len(r.data) >= 1 + CHUNK_FRAME_LEN
    /\ r.data[1] = OP_SAVE_READ_CHUNK
    /\ WireAddr(r.data) = SeqAddr(k, SRAM_CHUNKS_PER_BANK)

\* a chunk response with the echo and at least 36 payload bytes
FullChunk(r) ==
    /\ r.res \in {"ok", "timeout"}
    /\ Len(r.data) >= 1 + CHUNK_FRAME_LEN
    /\ r.data[1] = OP_SAVE_READ_CHUNK

\* C4: in download_save, a chunk response whose big-endian (bank, chunk)
\* differs from the next address in iteration order, or that has fewer than
\* 36 payload bytes, is the last one: no further 0x07 request is sent and the
\* operation returns -1, with the synchronisation error when the address was
\* the cause.
C4_OutOfSyncAborts ==
    fn = "download_save" =>
        \A k \in 1..Len(chunks_in) :
            ~GoodChunk(chunks_in[k], k - 1) =>
                /\ k = Len(chunks_in)
                /\ Len(TxOf(wire, OP_SAVE_READ_CHUNK)) = k
                /\ fpc \in {"after_chunk", "done"}
                /\ ex.pc \in {"ret", "idle"}
                /\ fpc = "done" =>
                       /\ result = -1
                       /\ L.diag = IF FullChunk(chunks_in[k]) THEN "sync" ELSE "read"

\* C4 witness: the second chunk came with a wrong address after a first good
\* one, and download_save returned -1 with the synchronisation error
C4_Witness ==
    /\ fn = "download_save"
    /\ fpc = "done"
    /\ result = -1
    /\ L.diag = "sync"
    /\ Len(chunks_in) = 2
    /\ GoodChunk(chunks_in[1], 0)
    /\ FullChunk(chunks_in[2])
    /\ Len(file) = CHUNK_SIZE

\* the data field of a chunk response
DataField(r) == SubSeq(r.data, 2 + ADDR_LEN, 1 + ADDR_LEN + CHUNK_SIZE)

\* the chunk responses download_save has dealt with: all those received but the
\* one execute_command has just returned
Handled ==
    IF fpc = "after_chunk" /\ ex.pc = "ret" /\ rx.res /= "none"
    THEN Len(chunks_in) - 1
    ELSE Len(chunks_in)

\* the data fields of the first n chunk responses that pass both checks
RECURSIVE GoodData(_)
GoodData(n) ==
    IF n = 0 THEN <<>>
    ELSE GoodData(n - 1)
         \o (IF GoodChunk(chunks_in[n], n - 1) THEN DataField(chunks_in[n]) ELSE <<>>)

\* C5 as stated: at every point of download_save and after it returns for any
\* reason, the file is exactly the data fields, in order, of the chunk
\* responses that passed both checks; on success it is num_ram_banks banks long.
C5_FileIsValidatedChunks ==
    fn = "download_save" =>
        /\ file = GoodData(Handled)
        /\ (fpc = "done" /\ result = 0) => Len(file) = L.num_ram_banks * SRAM_BANK_SIZE

\* C5 amended: the file is exactly the data fields, in order, of the chunk
\* responses that passed both checks, except after a disk write error, when
\* the data field of the last such chunk is cut short (a proper prefix of it,
\* possibly nothing, was written); the data of a chunk that failed a check is
\* never written; on success the file is num_ram_banks banks long.
C5_FileIsValidatedChunksUnlessDiskError ==
    fn = "download_save" =>
        /\ IF fpc = "done" /\ L.diag = "disk"
           THEN /\ Handled >= 1
                /\ GoodChunk(chunks_in[Handled], Handled - 1)
                /\ \E n \in 0..(CHUNK_SIZE - 1) :
                       file = GoodData(Handled - 1) \o Take(DataField(chunks_in[Handled]), n)
           ELSE file = GoodData(Handled)
        /\ (fpc = "done" /\ result = 0) => Len(file) = L.num_ram_banks * SRAM_BANK_SIZE

\* C5 witness: the second chunk passed both checks and its write failed after
\* one byte
C5_Witness ==
    /\ fn = "download_save"
    /\ fpc = "done"
    /\ result = -1
    /\ L.diag = "disk"
    /\ Len(chunks_in) = 2
    /\ Len(file) = CHUNK_SIZE + 1

\* C6: in the three chunked flows the k-th chunk transaction (k from 0) sends,
\* or in download_save expects, the address (k div chunks_per_bank,
\* k mod chunks_per_bank), with bank < total_banks and chunk < chunks_per_bank.
C6_ChunkAddressesInOrder ==
    /\ fn = "upload_rom" =>
        LET tx == TxOf(wire, OP_ROM_CHUNK) IN
        \A k \in 1..Len(tx) :
            /\ WireAddr(tx[k].frame) = SeqAddr(k - 1, ROM_CHUNKS_PER_BANK)
            /\ WireAddr(tx[k].frame)[1] < L.total_banks
            /\ WireAddr(tx[k].frame)[2] < ROM_CHUNKS_PER_BANK
    /\ fn = "upload_save" =>
        LET tx == TxOf(wire, OP_SAVE_WRITE_CHUNK) IN
        \A k \in 1..Len(tx) :
            /\ WireAddr(tx[k].frame) = SeqAddr(k - 1, SRAM_CHUNKS_PER_BANK)
            /\ WireAddr(tx[k].frame)[1] < L.num_ram_banks
            /\ WireAddr(tx[k].frame)[2] < SRAM_CHUNKS_PER_BANK
    /\ fn = "download_save" =>
        /\ \A k \in 1..Len(L.asked) :
            /\ L.asked[k] = SeqAddr(k - 1, SRAM_CHUNKS_PER_BANK)
            /\ L.asked[k][1] < L.num_ram_banks
            /\ L.asked[k][2] < SRAM_CHUNKS_PER_BANK
        /\ Len(TxOf(wire, OP_SAVE_READ_CHUNK)) \in {Len(L.asked) - 1, Len(L.asked)}

\* C6 witness: upload_rom has sent every chunk of two banks
C6_Witness ==
    /\ fn = "upload_rom"
    /\ fpc = "done"
    /\ result = 0
    /\ L.total_banks = 2
    /\ Len(TxOf(wire, OP_ROM_CHUNK)) = 2 * ROM_CHUNKS_PER_BANK

\* byte o of the stream made of the data fields of the 0x03 chunks in tx
StreamByte(tx, o) == tx[(o \div CHUNK_SIZE) + 1].frame[1 + ADDR_LEN + (o % CHUNK_SIZE) + 1]

\* C7: a ROM file of size S uploaded with success by upload_rom makes exactly
\* ceil(S / BANK_SIZE) banks, and the stream of the data fields of its 0x03
\* chunks is the file followed by zeros up to the end of the last bank.
C7_UploadRoundTrip ==
    (fn = "upload_rom" /\ fpc = "done" /\ result = 0) =>
        LET tx == TxOf(wire, OP_ROM_CHUNK)
            S == L.f.size
            banks == (S + BANK_SIZE - 1) \div BANK_SIZE
        IN /\ Len(tx) = banks * ROM_CHUNKS_PER_BANK
           /\ \A o \in 0..((banks * BANK_SIZE) - 1) :
                  StreamByte(tx, o) = IF o < S THEN FileByte(L.f, o) ELSE 0

\* the round trip of C7 for the files whose bank count fits the 16-bit field
UploadRoundTripBelowU16 ==
    (fn = "upload_rom" /\ fpc = "done" /\ result = 0
     /\ (L.f.size + BANK_SIZE - 1) \div BANK_SIZE < U16) => C7_UploadRoundTrip

\* the utilization transaction returned at least 5 payload bytes
UtilizationAnswered ==
    Received /\ Len(rx.data) >= 1 + UTIL_MIN_BYTES /\ rx.data[1] = OP_UTILIZATION

\* C10: in list_games, once the utilization transaction gave rom_count = n,
\* the rom-info transactions issued are those for ids 0, 1, ... in ascending
\* order, one each, all n of them when list_games returns, which it then does
\* with success whatever the rom-info transactions answered; list_games
\* returns -1 only when the utilization transaction failed.
C10_EveryRomIdQueriedOnce ==
    fn = "list_games" =>
        LET tx == TxOf(wire, OP_ROM_INFO) IN
        /\ \A k \in 1..Len(tx) : tx[k].frame = <<OP_ROM_INFO, k - 1>>
        /\ (fpc = "loop" /\ tx = <<>>) =>
                (UtilizationAnswered /\ L.num_roms = rx.data[2])
        /\ fpc \in {"loop", "after_info"} => Len(tx) <= L.num_roms
        /\ (fpc = "done" /\ result = 0) => Len(tx) = L.num_roms
        /\ (fpc = "done" /\ result /= 0) =>
                (result = -1 /\ tx = <<>> /\ ~UtilizationAnswered)

\* C10 witness: two ROMs; slot 0 could not be read, slot 1 was listed, and
\* list_games returned 0
C10_Witness ==
    /\ fn = "list_games"
    /\ fpc = "done"
    /\ result = 0
    /\ L.num_roms = 2
    /\ Len(TxOf(wire, OP_ROM_INFO)) = 2
    /\ Len(L.entries) = 1
    /\ L.entries[1].id = 1

\* list_games has just decoded the rom-info response still held in rx
JustDecoded ==
    /\ fn = "list_games"
    /\ fpc = "loop"
    /\ L.entries /= <<>>
    /\ Last(L.entries).id = L.i - 1
    /\ Received
    /\ rx.data /= <<>>
    /\ rx.data[1] = OP_ROM_INFO

\* the payload of the response in rx: what follows the echo byte
RxPayload == Drop(rx.data, 1)

\* C11 as stated: the entry decoded from a rom-info payload of exactly 20
\* bytes has rom_bank_count 0 and mbc 0xFF, whatever the bytes are.
C11_TwentyBytesMbcDefault ==
    (JustDecoded /\ Len(RxPayload) = INFO_MIN_BYTES) =>
        /\ Last(L.entries).num_rom_banks = 0
        /\ Last(L.entries).mbc = 255

\* C11 amended: the entry decoded from a rom-info payload of exactly 20 bytes
\* has rom_bank_count 0 and mbc equal to byte 18 of the payload, whatever the
\* bytes are.
C11_TwentyBytesNoRomBanks ==
    (JustDecoded /\ Len(RxPayload) = INFO_MIN_BYTES) =>
        /\ Last(L.entries).num_rom_banks = 0
        /\ Last(L.entries).mbc = RxPayload[NAME_LEN + 2]

\* C11 witness: a 20-byte payload whose byte 18 is 0x1B was decoded to
\* rom_bank_count 0 and mbc 0x1B
C11_Witness ==
    /\ JustDecoded
    /\ Len(RxPayload) = INFO_MIN_BYTES
    /\ RxPayload[NAME_LEN + 2] = 27
    /\ Last(L.entries).mbc = 27
    /\ Last(L.entries).num_rom_banks = 0

\* C12: the entry decoded from a rom-info payload of length at least 20 has
\* name = bytes 0..16 read as a C string, ram bank count = byte 17, mbc =
\* byte 18, and rom bank count = byte 19 + 256 * byte 20 when the payload is
\* longer than 20 bytes and 0 otherwise.
C12_CatalogDecode ==
    (JustDecoded /\ Len(RxPayload) >= INFO_MIN_BYTES) =>
        LET p == RxPayload
            e == Last(L.entries)
        IN /\ e.name = CString(SubSeq(p, 1, NAME_LEN))
           /\ e.num_ram_banks = p[NAME_LEN + 1]
           /\ e.mbc = p[NAME_LEN + 2]
           /\ e.num_rom_banks = IF Len(p) > INFO_MIN_BYTES
                                THEN p[NAME_LEN + 3] + (256 * p[NAME_LEN + 4])
                                ELSE 0

\* C12 witness: the 20-byte payload "ZELDA", ram_banks 1, mbc 0x1B was
\* decoded to name ZELDA, ram_banks 1, mbc 0x1B, rom_banks 0; and a 21-byte
\* payload is decoded with a non-zero rom bank count in another slot
C12_Witness ==
    /\ JustDecoded
    /\ Len(L.entries) = 2
    /\ L.entries[1] = [id |-> 0, name |-> <<90, 69, 76, 68, 65>>, num_ram_banks |-> 1,
                       mbc |-> 27, num_rom_banks |-> 0]
    /\ Len(RxPayload) = INFO_MIN_BYTES + 1
    /\ L.entries[2].num_rom_banks = 512

\* list_games is past its utilization transaction and has sent no rom-info
\* request since: rx still holds what the utilization read transferred
UtilizationHandled ==
    /\ fn = "list_games"
    /\ fpc \in {"loop", "done"}
    /\ TxOf(wire, OP_ROM_INFO) = <<>>

\* C13: list_games fails at the utilization query unless at least 5 payload
\* bytes came back; otherwise rom_count is byte 0 and the reported used-bank
\* count is floor((byte 1 + 256 * byte 2) / 256), against a maximum of 888.
C13_UtilizationScaling ==
    UtilizationHandled =>
        IF UtilizationAnswered
        THEN /\ fpc = "done" => result = 0
             /\ L.num_roms = RxPayload[1]
             /\ L.used_banks = (RxPayload[2] + (256 * RxPayload[3])) \div 256
             /\ L.max_banks = 888
        ELSE fpc = "done" /\ result = -1

\* C13 witness: the utilization payload 02 00 02 00 00 (raw counter 512) is
\* reported as 2 ROMs and 2 used banks
C13_Witness ==
    /\ UtilizationHandled
    /\ fpc = "loop"
    /\ RxPayload = <<2, 0, 2, 0, 0>>
    /\ L.num_roms = 2
    /\ L.used_banks = 2

\* the bulk read r transferred the echo of command and at least n payload bytes
Answered(r, command, n) ==
    /\ r.res \in {"ok", "timeout"}
    /\ Len(r.data) >= 1 + n
    /\ r.data[1] = command

\* C14: get_device_info returns 0 exactly when the device-info transaction
\* (0xFE) returned at least 11 payload bytes, and -1 otherwise; whatever the
\* serial-id transaction (0xFD) does - transport failure, echo mismatch, fewer
\* than 8 bytes - the result stays 0 and only the serial field is left out.
C14_SerialFailureIsHarmless ==
    (fn = "get_device_info" /\ fpc = "done") =>
        /\ result \in {0, -1}
        /\ result = 0 <=> Answered(L.info_rx, OP_DEVICE_INFO, DEVINFO_MIN_BYTES)
        /\ result = -1 => TxOf(wire, OP_SERIAL_ID) = <<>>
        /\ result = 0 =>
            /\ Len(TxOf(wire, OP_SERIAL_ID)) = 1
            /\ L.info = SubSeq(L.info_rx.data, 2, 1 + DEVINFO_MIN_BYTES)
            /\ L.serial = IF Answered(rx, OP_SERIAL_ID, SERIAL_MIN_BYTES)
                          THEN SubSeq(rx.data, 2, 1 + SERIAL_MIN_BYTES)
                          ELSE <<>>

\* C14 witness: the device info was read, the serial-id transaction came back
\* with a wrong echo, and get_device_info returned 0 without a serial
C14_Witness ==
    /\ fn = "get_device_info"
    /\ fpc = "done"
    /\ result = 0
    /\ L.serial = <<>>
    /\ err = "EchoMismatch"
    /\ Len(L.info) = DEVINFO_MIN_BYTES

\* C15: whenever main has exited after the device was opened - endpoint
\* discovery or configuration failed, 'q' was chosen or the input ended at the
\* menu - the interface has been released and the device closed, whatever the
\* operations run in between returned.
C15_DeviceReleasedAtExit ==
    (main.pc = "exited" /\ main.opened) =>
        /\ ~main.open
        /\ ~main.claimed
        /\ main.releases >= 1

\* C15 witness: main exits with 0 after an operation returned -1; the
\* interface it had claimed is released and the device closed
C15_Witness ==
    /\ main.pc = "exited"
    /\ main.code = 0
    /\ main.opened
    /\ fn = "none"
    /\ result = -1
    /\ ~main.open
    /\ ~main.claimed

\* a frame was sent with success and its receive has not been attempted yet
SendPending ==
    \/ /\ Len(wire) >= 1
       /\ Last(wire).k = "tx"
       /\ Last(wire).ok
    \/ /\ Len(wire) >= 2
       /\ Last(wire).k = "delay"
       /\ wire[Len(wire) - 1].k = "tx"

\* C16: every transaction goes frame, send, settle delay, receive, echo
\* validation, payload: a receive is attempted only right after the settle
\* delay that follows a successful send; after a successful send nothing is
\* sent before its receive has been attempted, so sends and receives
\* alternate; a payload is returned only after the send, the delay, the
\* receive and a matching echo; and no transaction is in flight while no
\* operation is running.
C16_TransactionOrder ==
    /\ \A k \in 1..Len(wire) :
        wire[k].k = "rx" =>
            /\ k >= 3
            /\ wire[k - 1].k = "delay"
            /\ wire[k - 2].k = "tx"
            /\ wire[k - 2].ok
    /\ \A k \in 1..(Len(wire) - 1) :
        (wire[k].k = "tx" /\ wire[k].ok) =>
            /\ wire[k + 1].k = "delay"
            /\ k + 2 <= Len(wire) => wire[k + 2].k = "rx"
    /\ SendPending => ex.pc \in {"delay", "recv"}
    /\ (ex.pc = "ret" /\ ret >= 0) =>
            /\ Len(wire) = ex.mark + 3
            /\ wire[ex.mark + 1] = [k |-> "tx", frame |-> <<ex.command>> \o ex.payload,
                                    ok |-> TRUE]
            /\ wire[ex.mark + 2].k = "delay"
            /\ wire[ex.mark + 3].k = "rx"
            /\ Received
            /\ rx.data /= <<>>
            /\ rx.data[1] = ex.command
    /\ fpc \in {"menu", "done"} => (ex.pc = "idle" /\ ~SendPending)

\* C16 witness: list_games has returned after three transactions, the
\* receive of each attempted before the next frame was sent
C16_Witness ==
    /\ fn = "list_games"
    /\ fpc = "done"
    /\ NumRx(wire) = 3
    /\ Len(TxEvents(wire)) = 3

\* what identifies the transaction a frame asks for: the opcode and address of
\* a chunk frame, the whole frame otherwise
Request(frame) ==
    IF frame[1] \in {OP_ROM_CHUNK, OP_SAVE_WRITE_CHUNK}
    THEN SubSeq(frame, 1, 1 + ADDR_LEN)
    ELSE frame

\* the events logged since the current call of execute_command
SinceCall == SubSeq(wire, ex.mark + 1, Len(wire))

\* C17: no retries.  A call of execute_command does at most one bulk write and
\* at most one bulk read; within an operation no transaction is issued twice:
\* the frames sent ask for pairwise different things (0x07 frames, which carry
\* no address, are counted against the pairwise different addresses
\* download_save asks for); and in the chunked flows a transaction that failed
\* is the last one of the operation.
C17_NoRetries ==
    /\ ex.pc /= "idle" =>
        /\ Len(TxEvents(SinceCall)) <= 1
        /\ NumRx(SinceCall) <= 1
    /\ fn /= "download_save" =>
        LET tx == TxEvents(wire) IN
        \A i, j \in 1..Len(tx) : Request(tx[i].frame) = Request(tx[j].frame) => i = j
    /\ fn = "download_save" =>
        /\ Len(TxOf(wire, OP_SAVE_DOWNLOAD)) <= 1
        /\ Len(TxOf(wire, OP_SAVE_READ_CHUNK)) <= Len(L.asked)
        /\ \A i, j \in 1..Len(L.asked) : L.asked[i] = L.asked[j] => i = j
    /\ (fn \in ChunkFlows /\ ex.pc = "ret" /\ ret < 0) => fpc \in {"after_handshake", "after_chunk"}
    /\ (fn \in ChunkFlows /\ fpc = "loop") => ret >= 0
    /\ (fn \in ChunkFlows /\ fpc = "done" /\ err /= "none") =>
        (result = -1 /\ Len(wire) >= 1 /\ Last(wire).k \in {"tx", "rx"})

\* C17 witness: the second chunk transaction of upload_save failed and
\* upload_save returned -1 having sent each frame once
C17_Witness ==
    /\ fn = "upload_save"
    /\ fpc = "done"
    /\ result = -1
    /\ err /= "none"
    /\ Len(ChunkTx(wire)) = 2
    /\ Len(TxEvents(wire)) = 3

\* C18: a chunked flow enters its chunk phase only if its handshake
\* transaction returned a status byte equal to zero; after a handshake
\* response made of the echo byte alone, which writes nothing to the status
\* variable, upload_rom, download_save and upload_save send no chunk
\* transaction.  In the uploads the status variable still holds what the
\* handshake wrote when the first chunk is sent; download_save is looked at
\* as it enters its chunk loop with at least one bank to read.
C18_EchoOnlyHandshakeAborts ==
    /\ (fn = "download_save" /\ fpc = "loop" /\ NumRx(wire) = 1 /\ L.num_ram_banks >= 1) =>
        /\ Received
        /\ Len(rx.data) >= 2
        /\ rx.data[2] = 0
    /\ (fn \in {"upload_rom", "upload_save"} /\ ChunkTx(wire) /= <<>> /\ NumRx(wire) = 1) =>
        response = <<0>>

\* the handshake opcode of a chunked flow
HandshakeOp(f) ==
    CASE f = "upload_rom" -> OP_ROM_UPLOAD
      [] f = "download_save" -> OP_SAVE_DOWNLOAD
      [] f = "upload_save" -> OP_SAVE_UPLOAD

\* the chunk transactions a chunked flow has to do: banks times chunks per bank
ChunksToDo ==
    CASE fn = "upload_rom" -> L.total_banks * ROM_CHUNKS_PER_BANK
      [] fn = "download_save" -> L.num_ram_banks * SRAM_CHUNKS_PER_BANK
      [] fn = "upload_save" -> L.num_ram_banks * SRAM_CHUNKS_PER_BANK

\* a chunked flow has returned 0 after one handshake and ChunksToDo chunk
\* transactions, each sent with success and its response read
AllBanksProcessed ==
    /\ Len(wire) >= 1
    /\ wire[1].k = "tx"
    /\ wire[1].frame[1] = HandshakeOp(fn)
    /\ Len(TxOf(wire, HandshakeOp(fn))) = 1
    /\ Len(ChunkTx(wire)) = ChunksToDo
    /\ Len(TxEvents(wire)) = 1 + ChunksToDo
    /\ \A k \in 1..Len(wire) : wire[k].k = "tx" => wire[k].ok
    /\ NumRx(wire) = 1 + ChunksToDo

\* C19: each of upload_rom, download_save and upload_save, once called,
\* returns (at its first fatal error or at completion), every transaction
\* returning; and it returns 0 only after exactly one handshake followed by
\* exactly total_banks * chunks_per_bank chunk transactions.
C19_FlowsTerminateComplete ==
    /\ [](fn \in ChunkFlows /\ fpc = "done" /\ result = 0 => AllBanksProcessed)
    /\ (fn \in ChunkFlows) ~> (fn \in ChunkFlows /\ fpc = "done")

\* C19 witness: upload_save has returned 0 for the largest number of banks
C19_Witness ==
    /\ fn = "upload_save"
    /\ fpc = "done"
    /\ result = 0
    /\ L.num_ram_banks = MaxRamBanks
    /\ AllBanksProcessed

\* C20: the bank count upload_rom announces big-endian in the 16-bit field of
\* its handshake, which is also the bound of its chunk loop, is ceil(S / BANK_SIZE)
\* for every file size S.
C20_BankCountNoWrap ==
    (fn = "upload_rom" /\ wire /= <<>>) =>
        LET S == L.f.size
            banks == (S + BANK_SIZE - 1) \div BANK_SIZE
            frame == wire[1].frame
        IN /\ frame[1] = OP_ROM_UPLOAD
           /\ (frame[2] * BYTE) + frame[3] = banks
           /\ L.total_banks = banks
\* byte o of save file f as a chunk carries it: zero at or past end-of-file
PaddedByte(f, o) == IF o < f.size THEN FileByte(f, o) ELSE 0

\* C21: upload_save sends num_ram_banks * chunks_per_bank 0x09 chunks when it
\* succeeds, whatever the file size, and never more; the data field of the
\* k-th chunk (k from 0) is the file bytes [k * CHUNK_SIZE, (k + 1) * CHUNK_SIZE)
\* with zero at every position at or past end-of-file, so that no file byte at
\* an offset >= num_ram_banks * SRAM_BANK_SIZE is sent.
C21_SaveChunksFromFile ==
    fn = "upload_save" =>
        LET tx == TxOf(wire, OP_SAVE_WRITE_CHUNK) IN
        /\ Len(tx) <= L.num_ram_banks * SRAM_CHUNKS_PER_BANK
        /\ (fpc = "done" /\ result = 0) =>
               Len(tx) = L.num_ram_banks * SRAM_CHUNKS_PER_BANK
        /\ \A k \in 1..Len(tx) :
            /\ Len(tx[k].frame) = 1 + ADDR_LEN + CHUNK_SIZE
            /\ \A i \in 1..CHUNK_SIZE :
                   tx[k].frame[1 + ADDR_LEN + i] =
                       PaddedByte(L.f, ((k - 1) * CHUNK_SIZE) + i - 1)

\* C21 witness: a one-bank upload of a file that ends inside the second chunk
\* has succeeded
C21_Witness ==
    /\ fn = "upload_save"
    /\ fpc = "done"
    /\ result = 0
    /\ L.num_ram_banks = 1
    /\ L.f.size = CHUNK_SIZE + 1
    /\ Len(TxOf(wire, OP_SAVE_WRITE_CHUNK)) = SRAM_CHUNKS_PER_BANK

\* the delays of w that directly follow a bulk read: the sleeps an operation
\* makes between two transactions, outside execute_command
InterDelays(w) ==
    Cardinality({k \in 2..Len(w) : w[k].k = "delay" /\ w[k - 1].k = "rx"})

C24_PayloadCopy ==
    ex.pc = "ret" =>
        /\ ret >= 0 =>
            /\ Received
            /\ Len(rx.data) >= 1
            /\ ret = Min(Len(rx.data) - 1, ex.response_len)
            /\ ret <= ex.response_len
            /\ Take(response, ret) = SubSeq(rx.data, 2, ret + 1)
            /\ Drop(response, ret) = Drop(ex.saved, ret)
        /\ ret < 0 => response = ex.saved

\* C24 witness: a response with more payload than the capacity of one byte
\* was truncated, and the second byte of the caller's buffer was left alone
C24_Witness ==
    /\ ex.pc = "ret"
    /\ ex.response_len = 1
    /\ Len(rx.data) - 1 > ex.response_len
    /\ ret = 1
    /\ ex.saved = <<9, 9>>
    /\ response = <<rx.data[2], 9>>

SaveOps == {"download_save", "upload_save"}

\* the opcodes of the save transactions: the two handshakes and their chunks
SaveOpcodes == {OP_SAVE_DOWNLOAD, OP_SAVE_READ_CHUNK, OP_SAVE_UPLOAD, OP_SAVE_WRITE_CHUNK}

\* main has just done one rom-info transaction for ROM id, and the device
\* answered it with at least 18 payload bytes, the 18th being n
InfoAnswered(id, n) ==
    /\ fn = "main"
    /\ ex.pc = "ret"
    /\ wire = <<[k |-> "tx", frame |-> <<OP_ROM_INFO, id>>, ok |-> TRUE],
                [k |-> "delay"], [k |-> "rx"]>>
    /\ Received
    /\ Len(rx.data) >= 1 + SAVE_INFO_MIN_BYTES
    /\ rx.data[1] = OP_ROM_INFO
    /\ rx.data[1 + SAVE_INFO_MIN_BYTES] = n

\* C25: download_save and upload_save are called only when the rom-info
\* transaction main has just done for the same ROM id was answered with at
\* least 18 payload bytes and a non-zero RAM bank count, which is the bank
\* count they are given; a save transaction (0x06, 0x07, 0x08, 0x09) is sent
\* only inside them, the handshake first and for that ROM id; the
\* destination file exists only inside download_save; and a save transfer
\* that succeeds has transferred exactly that many banks.
C25_SaveNeedsRomInfo ==
    /\ [][(fn' \in SaveOps /\ fn \notin SaveOps) =>
              (InfoAnswered(L'.rom_id, L'.num_ram_banks) /\ L'.num_ram_banks /= 0)]_vars
    /\ [](\A k \in 1..Len(wire) :
             (wire[k].k = "tx" /\ wire[k].frame[1] \in SaveOpcodes) =>
                 (/\ fn \in SaveOps
                  /\ wire[1].k = "tx"
                  /\ wire[1].frame = <<HandshakeOp(fn), L.rom_id>>))
    /\ [](fn /= "download_save" => file = <<>>)
    /\ []((fn \in SaveOps /\ fpc = "done" /\ result = 0) =>
             (/\ L.num_ram_banks >= 1
              /\ Len(ChunkTx(wire)) = L.num_ram_banks * SRAM_CHUNKS_PER_BANK))
    /\ []((fn = "download_save" /\ fpc = "done" /\ result = 0) =>
             Len(file) = L.num_ram_banks * SRAM_BANK_SIZE)

\* C25 witness: a save of the largest bank count the rom-info can report was
\* downloaded for ROM 2
C25_Witness ==
    /\ fn = "download_save"
    /\ fpc = "done"
    /\ result = 0
    /\ L.rom_id = 2
    /\ L.num_ram_banks = MaxRamBanks
    /\ Len(file) = MaxRamBanks * SRAM_BANK_SIZE

\* the other case of C25: the game has no RAM, main is back at its loop and
\* the rom-info transaction is the only one it made
C25_WitnessNoRam ==
    /\ fn = "main"
    /\ fpc = "done"
    /\ ret >= SAVE_INFO_MIN_BYTES
    /\ RamBanks(response) = 0
    /\ Len(TxEvents(wire)) = 1
====
